---- MODULE Spec2Model ----
(***************************************************************************)
(* bugcrawl: the file-based crawl of the bugview service (src/src/lib.rs). *)
(*                                                                         *)
(* One run of bugcrawl() is a sequential program; its position is pc.      *)
(* The remote service and the filesystem are the environment: every        *)
(* request, metadata call, write and rename draws its outcome from the     *)
(* outcomes the call can have.  A run can be interrupted (the process      *)
(* killed) at any point, and the program can be run again on the directory *)
(* the previous run left behind.                                           *)
(***************************************************************************)
EXTENDS Integers, Sequences, FiniteSets, TLC

VARIABLES
    pc,             \* position of the run in bugcrawl()
    run,            \* number of the current run, 1..MaxRuns
    prev,           \* "done" if the previous run returned Ok, "aborted" if it
                    \* did not, "none" in the first run
    service,        \* the listing service the runs talk to
    fs,             \* the directory: path -> file, for the paths that exist
    start_fs,       \* the directory as this run found it
    paced,          \* a pacing sleep has been taken since the last request
    offset,         \* list_issues: offset of the next listing request
    prev_total,     \* total of the page before this one, -1 if none
    answered,       \* every page of this walk had the offset asked for
    fed,            \* every page of this walk below its total had an issue
    trend,          \* how the totals of this walk's pages have moved:
                    \* "flat", "grew", or "fell" once one dropped
    page,           \* the page list_issues_page last decoded
    issue_ids,      \* list_issues: accumulated keys
    nchecked,       \* number of issue_ids the filter closure has examined
    new_issue_ids,  \* keys the filter has kept so far
    count,          \* bugcrawl: number of download_issue calls so far
    content,        \* download_issue: the body read from the response
    last            \* the last call to the outside world and its outcome

vars == <<pc, run, prev, service, fs, start_fs, paced, offset, prev_total, answered, fed, trend, page,
          issue_ids, nchecked, new_issue_ids, count, content, last>>

(***************************************************************************)
(* Program constant and bounds.                                            *)
(***************************************************************************)
MAX_ISSUE_LEN == 1024 * 1024

MaxRuns == 2        \* runs of the program on one directory
MaxN == 3           \* issues a paged listing service holds
MaxK == 2           \* page size of a paged listing service
MaxTotal == 3       \* largest offset / total an arbitrary page reports
MaxPage == 1        \* most issues an arbitrary page carries
MaxIds == MaxTotal + MaxPage - 1   \* longest identifier list kept

Ids == {"A", "B"}
StatusCodes == {200, 299, 300, 500}
BodyLens == {MAX_ISSUE_LEN, MAX_ISSUE_LEN + 1}

Min(a, b) == IF a < b THEN a ELSE b

SeqsUpTo(S, n) == UNION {[1..m -> S] : m \in 0..n}

(***************************************************************************)
(* Data.                                                                   *)
(***************************************************************************)
NoPage == [offset |-> 0, total |-> 0, issues |-> <<>>, valid |-> FALSE]
NoContent == [issue |-> "", len |-> -1]
NoCall == [op |-> "none", id |-> "", status |-> 0, out |-> ""]

Call(op, id, status, out) == [op |-> op, id |-> id, status |-> status, out |-> out]

IssueListPage(o, t, keys) == [offset |-> o, total |-> t, issues |-> keys, valid |-> TRUE]

\* A file: the body it is being written from, and how many bytes of it are there.
File(body, written) == [issue |-> body.issue, len |-> body.len, written |-> written]

(***************************************************************************)
(* Paths and the directory.                                                *)
(***************************************************************************)
\* path_for_issue: <filepath>/<issue_id>.json, with ".tmp" appended for tmp.
path_for_issue(issue_id, tmp) ==
    "bugs/" \o issue_id \o ".json" \o (IF tmp THEN ".tmp" ELSE "")

\* The body written at the final path itself.
WritePath_final(issue_id) == path_for_issue(issue_id, FALSE)

\* The path std::fs::write is given: newpath_tmp.
WritePath(issue_id) == path_for_issue(issue_id, TRUE)

Exists(dir, path) == path \in DOMAIN dir

\* std::fs::metadata: Ok for a path that exists, NotFound for one that does
\* not, and in both cases possibly another error (e.g. permission denied).
MetadataOutcomes(dir, path) ==
    (IF Exists(dir, path) THEN {"Ok"} ELSE {"NotFound"}) \cup {"Other"}

\* The match with the Ok arm returning true: every identifier is kept.
FilterVerdict_keep_all(res) ==
    CASE res = "NotFound" -> "keep"
      [] res = "Ok"       -> "keep"
      [] OTHER            -> "panic"

\* The match with the last arm returning true: an identifier whose check
\* failed is taken for missing.
FilterVerdict_lenient(res) ==
    CASE res = "NotFound" -> "keep"
      [] res = "Ok"       -> "drop"
      [] OTHER            -> "keep"

\* The match in the filter closure of bugcrawl().
FilterVerdict(res) ==
    CASE res = "NotFound" -> "keep"
      [] res = "Ok"       -> "drop"
      [] OTHER            -> "panic"

\* File::create: the path exists afterwards, truncated to nothing.
Truncate(dir, path, body) ==
    [p \in DOMAIN dir \cup {path} |-> IF p = path THEN File(body, 0) ELSE dir[p]]

\* write_all: bytes are appended to the file at path.
WriteTo(dir, path, n) ==
    [dir EXCEPT ![path] = [@ EXCEPT !.written = n]]

\* rename(2): in one step the target holds what the source held and the
\* source is gone.
RenameFile(dir, from, to) ==
    [p \in (DOMAIN dir \ {from}) \cup {to} |-> IF p = to THEN dir[from] ELSE dir[p]]

\* Byte counts a write_all that has not finished can have reached.
PartialLens(len) == {1}

(***************************************************************************)
(* The remote service.                                                     *)
(***************************************************************************)
\* A paged service holds a fixed sequence of issues and serves it k at a time.
PagedService(keys, k) == [kind |-> "paged", issues |-> keys, k |-> k]
\* Any other service: every page is whatever the server chooses to send.
AnyService == [kind |-> "any", issues |-> <<>>, k |-> 1]

PagedServices ==
    {PagedService(keys, k) : keys \in SeqsUpTo(Ids, MaxN), k \in 1..MaxK}

PagedPage(srv, o) ==
    LET n == Len(srv.issues)
    IN  IssueListPage(o, n, SubSeq(srv.issues, o + 1, Min(o + srv.k, n)))

\* The pages a listing request at offset o may be answered with.
Pages(srv, o, room) ==
    IF srv.kind = "paged"
    THEN {PagedPage(srv, o)}
    ELSE {IssueListPage(po, t, keys) :
            po \in 0..MaxTotal, t \in 0..MaxTotal,
            keys \in SeqsUpTo(Ids, Min(MaxPage, room))}

\* is_success without the upper end of the range.
is_success_lax(status) == status >= 200

\* StatusCode::is_success
is_success(status) == status >= 200 /\ status <= 299

\* A page that has the offset asked for.
Answers(pg, o) == pg.offset = o

\* A page that is not empty while below its total.
Feeds(pg) == pg.offset < pg.total => Len(pg.issues) > 0

\* The movement of the totals once pg follows the page before it.
Trend(tr, pg, before) ==
    IF tr = "fell" \/ (before >= 0 /\ pg.total < before) THEN "fell"
    ELSE IF tr = "grew" \/ (before >= 0 /\ pg.total > before) THEN "grew"
    ELSE "flat"

(***************************************************************************)
(* list_issues: the bookkeeping of the loop.                               *)
(***************************************************************************)
\* process_issue_page skipping the keys the list already holds.
process_issue_page_dedup(pg, ids) ==
    ids \o SelectSeq(pg.issues, LAMBDA key : \A i \in 1..Len(ids) : ids[i] # key)

\* process_issue_page: push every item's key.
process_issue_page(pg, ids) == ids \o pg.issues

\* The new offset without the issues of the page.
NextOffset_same(pg) == pg.offset

\* offset = page.offset + page.issues.len()
NextOffset(pg) == pg.offset + Len(pg.issues)

\* The test that ends the walk, one issue early.
WalkDone_early(pg) == pg.offset + Len(pg.issues) + 1 >= pg.total

\* The test that ends the walk, with > for >=.
WalkDone_strict(pg) == pg.offset + Len(pg.issues) > pg.total

\* if page.offset + page.issues.len() >= page.total { break; }
WalkDone(pg) == pg.offset + Len(pg.issues) >= pg.total

\* The size check with >= for >.
TooBig_at_cap(body) == body.len >= MAX_ISSUE_LEN

\* The size check of download_issue.
TooBig(body) == body.len > MAX_ISSUE_LEN

(***************************************************************************)
(* Initial state: a first run about to start on a directory that earlier   *)
(* runs may have left complete files and stale temporary files in.         *)
(***************************************************************************)
\* A body an earlier run stored, and the body a stale temporary file was
\* being written from.
OldBody(id) == [issue |-> id, len |-> 2]
StaleBody(id) == [issue |-> id, len |-> MAX_ISSUE_LEN]

Directories ==
    {[p \in {path_for_issue(id, FALSE) : id \in done}
            \cup {path_for_issue(id, TRUE) : id \in stale} |->
        IF \E id \in done : p = path_for_issue(id, FALSE)
        THEN File(OldBody(CHOOSE id \in done : p = path_for_issue(id, FALSE)), 2)
        ELSE File(StaleBody(CHOOSE id \in stale : p = path_for_issue(id, TRUE)), 1)]
     : done \in SUBSET Ids, stale \in SUBSET Ids}

EmptyDirectory == CHOOSE dir \in Directories : DOMAIN dir = {}

InitWith(services, dirs) ==
    /\ pc = "init_directory"
    /\ run = 1
    /\ prev = "none"
    /\ service \in services
    /\ fs \in dirs
    /\ start_fs = fs
    /\ paced = FALSE
    /\ offset = 0
    /\ prev_total = -1
    /\ answered = TRUE
    /\ fed = TRUE
    /\ trend = "flat"
    /\ page = NoPage
    /\ issue_ids = <<>>
    /\ nchecked = 0
    /\ new_issue_ids = <<>>
    /\ count = 0
    /\ content = NoContent
    /\ last = NoCall

\* The crawl: a paged service, and any directory earlier runs can have left.
Init == InitWith(PagedServices, Directories)

\* The walk alone: the service may also answer with any page.
WalkInit == InitWith(PagedServices \cup {AnyService}, {EmptyDirectory})

(***************************************************************************)
(* bugcrawl(): one action per step of the run.                             *)
(***************************************************************************)
Running == pc \notin {"done", "failed", "panicked", "interrupted"}

\* init_directory(&bcp)?
InitDirectory ==
    /\ pc = "init_directory"
    /\ \E ok \in BOOLEAN :
        /\ pc' = IF ok THEN "list_issues_page" ELSE "failed"
        /\ last' = Call("create_dir_all", "", 0, IF ok THEN "Ok" ELSE "io")
    /\ UNCHANGED paced
    /\ UNCHANGED <<run, prev, service, start_fs, fs, offset, prev_total, answered, fed, trend, page,
                   issue_ids, nchecked, new_issue_ids, count, content>>

\* list_issues_page up to the decoded page: send the request, check the
\* status, decode the body.
ListIssuesPage ==
    /\ pc = "list_issues_page"
    /\ \/ /\ pc' = "failed"
          /\ last' = Call("list", "", 0, "transport")
          /\ UNCHANGED <<page, answered, fed, trend>>
       \/ \E status \in StatusCodes :
            IF ~is_success(status)
            THEN /\ pc' = "failed"
                 /\ last' = Call("list", "", status, "status")
                 /\ UNCHANGED <<page, answered, fed, trend>>
            ELSE \/ /\ pc' = "failed"
                    /\ last' = Call("list", "", status, "decode")
                    /\ UNCHANGED <<page, answered, fed, trend>>
                 \/ \E pg \in Pages(service, offset, MaxIds - Len(issue_ids)) :
                      /\ page' = pg
                      /\ answered' = (answered /\ Answers(pg, offset))
                      /\ fed' = (fed /\ Feeds(pg))
                      /\ trend' = Trend(trend, pg, prev_total)
                      /\ pc' = "list_sleep"
                      /\ last' = Call("list", "", status, "Ok")
    /\ paced' = FALSE
    /\ UNCHANGED <<run, prev, service, start_fs, fs, offset, prev_total, issue_ids,
                   nchecked, new_issue_ids, count, content>>

\* The sleep that ends list_issues_page, then the rest of the loop body of
\* list_issues: process_issue_page, the new offset, the test that ends the
\* walk; the page is dropped at the end of the iteration.
ListSleep ==
    /\ pc = "list_sleep"
    /\ last' = Call("sleep", "", 0, "500")
    /\ issue_ids' = process_issue_page(page, issue_ids)
    /\ offset' = NextOffset(page)
    /\ prev_total' = page.total
    /\ page' = NoPage
    /\ pc' = IF WalkDone(page) THEN "list_return" ELSE "list_issues_page"
    /\ paced' = TRUE
    /\ UNCHANGED <<run, prev, service, start_fs, fs, answered, fed, trend, nchecked,
                   new_issue_ids, count, content>>

\* list_issues returns Ok(issue_ids): its locals go out of scope.
ListReturn ==
    /\ pc = "list_return"
    /\ pc' = "filter"
    /\ offset' = 0
    /\ prev_total' = -1
    /\ answered' = TRUE
    /\ fed' = TRUE
    /\ trend' = "flat"
    /\ UNCHANGED paced
    /\ UNCHANGED <<run, prev, service, start_fs, fs, page, issue_ids, nchecked,
                   new_issue_ids, count, content, last>>

\* One call of the filter closure: the metadata of the final path of the next
\* identifier decides whether it is kept.  The panic abandons the collection.
FilterIssue ==
    /\ pc = "filter"
    /\ nchecked < Len(issue_ids)
    /\ LET issue_id == issue_ids[nchecked + 1]
           newpath == path_for_issue(issue_id, FALSE)
       IN  \E res \in MetadataOutcomes(fs, newpath) :
            /\ last' = Call("metadata", issue_id, 0, res)
            /\ nchecked' = nchecked + 1
            /\ CASE FilterVerdict(res) = "keep" ->
                        /\ new_issue_ids' = Append(new_issue_ids, issue_id)
                        /\ pc' = pc
                 [] FilterVerdict(res) = "drop" ->
                        /\ new_issue_ids' = new_issue_ids
                        /\ pc' = pc
                 [] OTHER ->
                        /\ new_issue_ids' = <<>>
                        /\ pc' = "panicked"
    /\ UNCHANGED paced
    /\ UNCHANGED <<run, prev, service, start_fs, fs, offset, prev_total, answered, fed, trend, page,
                   issue_ids, count, content>>

\* collect() returns: new_issue_ids is bound and the download loop starts.
FilterCollect ==
    /\ pc = "filter"
    /\ nchecked = Len(issue_ids)
    /\ pc' = "for_issue"
    /\ UNCHANGED paced
    /\ UNCHANGED <<run, prev, service, start_fs, fs, offset, prev_total, answered, fed, trend, page,
                   issue_ids, nchecked, new_issue_ids, count, content, last>>

\* The iterator of the for loop handing out the identifiers back to front.
NextIssue_reversed(ids, n) == ids[Len(ids) - n]

\* new_issue_ids.iter(): the identifier that follows the n already taken.
NextIssue(ids, n) == ids[n + 1]

\* The head of the for loop and download_issue up to the size check.
DownloadIssue ==
    /\ pc = "for_issue"
    /\ count < Len(new_issue_ids)
    /\ count' = count + 1
    /\ LET issue_id == NextIssue(new_issue_ids, count)
       IN  \/ /\ pc' = "failed"
              /\ last' = Call("get", issue_id, 0, "transport")
              /\ content' = NoContent
           \/ \E status \in StatusCodes :
                IF ~is_success(status)
                THEN /\ pc' = "failed"
                     /\ last' = Call("get", issue_id, status, "status")
                     /\ content' = NoContent
                ELSE \/ /\ pc' = "failed"
                        /\ last' = Call("get", issue_id, status, "transport")
                        /\ content' = NoContent
                     \/ \E len \in BodyLens :
                          LET body == [issue |-> issue_id, len |-> len]
                          IN  /\ content' = body
                              /\ last' = Call("get", issue_id, status,
                                              IF TooBig(body) THEN "oversize" ELSE "Ok")
                              /\ pc' = IF TooBig(body) THEN "failed" ELSE "write"
    /\ paced' = FALSE
    /\ UNCHANGED <<run, prev, service, start_fs, fs, offset, prev_total, answered, fed, trend, page,
                   issue_ids, nchecked, new_issue_ids>>

\* std::fs::write, first half: File::create of the temporary path.
WriteCreate ==
    /\ pc = "write"
    /\ LET issue_id == new_issue_ids[count]
           newpath_tmp == WritePath(issue_id)
       IN  \/ /\ fs' = Truncate(fs, newpath_tmp, content)
              /\ pc' = "write_all"
              /\ last' = Call("create", issue_id, 0, "Ok")
           \/ /\ fs' = fs
              /\ pc' = "failed"
              /\ last' = Call("create", issue_id, 0, "io")
    /\ UNCHANGED paced
    /\ UNCHANGED <<run, prev, service, start_fs, offset, prev_total, answered, fed, trend, page,
                   issue_ids, nchecked, new_issue_ids, count, content>>

\* std::fs::write, second half: write_all of the body into the temporary file.
\* It gets there in pieces, and can fail after any of them.
WriteAll ==
    /\ pc = "write_all"
    /\ LET issue_id == new_issue_ids[count]
           newpath_tmp == WritePath(issue_id)
       IN  \/ /\ fs' = WriteTo(fs, newpath_tmp, content.len)
              /\ pc' = "rename"
              /\ last' = Call("write_all", issue_id, 0, "Ok")
           \/ \E n \in PartialLens(content.len) :
                /\ n > fs[newpath_tmp].written
                /\ fs' = WriteTo(fs, newpath_tmp, n)
                /\ pc' = pc
                /\ last' = Call("write_all", issue_id, 0, "partial")
           \/ /\ fs' = fs
              /\ pc' = "failed"
              /\ last' = Call("write_all", issue_id, 0, "io")
    /\ UNCHANGED paced
    /\ UNCHANGED <<run, prev, service, start_fs, offset, prev_total, answered, fed, trend, page,
                   issue_ids, nchecked, new_issue_ids, count, content>>

\* download_issue returning right after the rename, without the sleep.
AfterRename_nosleep(res) == "for_issue"

\* Where download_issue goes after std::fs::rename returned res: the result
\* is dropped, so it goes on to the sleep either way.
AfterRename(res) == "download_sleep"

\* std::fs::rename(newpath_tmp, newpath);
Rename ==
    /\ pc = "rename"
    /\ LET issue_id == new_issue_ids[count]
           newpath == path_for_issue(issue_id, FALSE)
           newpath_tmp == WritePath(issue_id)
       IN  \E res \in {"Ok", "io"} :
            /\ fs' = IF res = "Ok" THEN RenameFile(fs, newpath_tmp, newpath) ELSE fs
            /\ pc' = AfterRename(res)
            /\ last' = Call("rename", issue_id, 0, res)
    /\ UNCHANGED paced
    /\ UNCHANGED <<run, prev, service, start_fs, offset, prev_total, answered, fed, trend, page,
                   issue_ids, nchecked, new_issue_ids, count, content>>

\* The sleep that ends download_issue; it returns Ok and the loop goes on.
DownloadSleep ==
    /\ pc = "download_sleep"
    /\ pc' = "for_issue"
    /\ last' = Call("sleep", new_issue_ids[count], 0, "3000")
    /\ content' = NoContent
    /\ paced' = TRUE
    /\ UNCHANGED <<run, prev, service, start_fs, fs, offset, prev_total, answered, fed, trend, page,
                   issue_ids, nchecked, new_issue_ids, count>>

\* The loop is over: bugcrawl returns Ok(()).
Return ==
    /\ pc = "for_issue"
    /\ count = Len(new_issue_ids)
    /\ pc' = "done"
    /\ UNCHANGED paced
    /\ UNCHANGED <<run, prev, service, start_fs, fs, offset, prev_total, answered, fed, trend, page,
                   issue_ids, nchecked, new_issue_ids, count, content, last>>

(***************************************************************************)
(* The world around a run.                                                 *)
(***************************************************************************)
\* The exit status of the process: main exits 1 on Err and falls off its end
\* on Ok; a panic that is not caught ends the process with status 101.
ExitStatus(at) ==
    CASE at = "done"     -> 0
      [] at = "failed"   -> 1
      [] at = "panicked" -> 101
      [] OTHER           -> -1

\* The process is killed where it stands: what it held in memory is gone,
\* the directory stays as it is.
Interrupt ==
    /\ Running
    /\ pc' = "interrupted"
    /\ offset' = 0
    /\ prev_total' = -1
    /\ answered' = TRUE
    /\ fed' = TRUE
    /\ trend' = "flat"
    /\ page' = NoPage
    /\ issue_ids' = <<>>
    /\ nchecked' = 0
    /\ new_issue_ids' = <<>>
    /\ count' = 0
    /\ content' = NoContent
    /\ last' = NoCall
    /\ paced' = FALSE
    /\ start_fs' = fs
    /\ UNCHANGED <<run, prev, service, fs>>

\* The program is started again on the same directory.
Restart ==
    /\ ~Running
    /\ run < MaxRuns
    /\ run' = run + 1
    /\ prev' = IF pc = "done" THEN "done" ELSE "aborted"
    /\ pc' = "init_directory"
    /\ offset' = 0
    /\ prev_total' = -1
    /\ answered' = TRUE
    /\ fed' = TRUE
    /\ trend' = "flat"
    /\ page' = NoPage
    /\ issue_ids' = <<>>
    /\ nchecked' = 0
    /\ new_issue_ids' = <<>>
    /\ count' = 0
    /\ content' = NoContent
    /\ last' = NoCall
    /\ paced' = FALSE
    /\ start_fs' = fs
    /\ UNCHANGED <<service, fs>>

Next ==
    \/ InitDirectory
    \/ ListIssuesPage
    \/ ListSleep
    \/ ListReturn
    \/ FilterIssue
    \/ FilterCollect
    \/ DownloadIssue
    \/ WriteCreate
    \/ WriteAll
    \/ Rename
    \/ DownloadSleep
    \/ Return
    \/ Interrupt
    \/ Restart

Spec == Init /\ [][Next]_vars

\* list_issues on its own, up to its return, against any service.
WalkNext ==
    \/ InitDirectory
    \/ ListIssuesPage
    \/ ListSleep
    \/ ListReturn
    \/ Interrupt

WalkSpec == WalkInit /\ [][WalkNext]_vars

\* A walk that is not killed keeps taking its steps.
WalkStep == InitDirectory \/ ListIssuesPage \/ ListSleep \/ ListReturn

FairWalkSpec == WalkSpec /\ WF_vars(WalkStep)

TypeOK ==
    /\ pc \in {"init_directory", "list_issues_page", "list_sleep", "list_return",
               "filter",
               "for_issue", "write", "write_all", "rename", "download_sleep",
               "done", "failed", "panicked", "interrupted"}
    /\ run \in 1..MaxRuns
    /\ Len(issue_ids) <= MaxIds
    /\ count <= Len(new_issue_ids)

(***************************************************************************)
(* Properties.                                                             *)
(***************************************************************************)
InWalk == pc \in {"list_issues_page", "list_sleep"}

\* The identifiers of ids, in order, that have no final file in dir.
Missing(ids, dir) ==
    SelectSeq(ids, LAMBDA id : ~Exists(dir, path_for_issue(id, FALSE)))

\* C1: in every reachable state, the states an interrupted download leaves
\* behind included, the final path of an issue is absent or holds a complete
\* body of that issue, never a part of one.
C1_FinalFileAbsentOrComplete ==
    \A id \in Ids :
        LET newpath == path_for_issue(id, FALSE)
        IN  Exists(fs, newpath) =>
                /\ fs[newpath].issue = id
                /\ fs[newpath].written = fs[newpath].len

\* C1 witness: a run killed while the temporary file of an issue was being
\* written; the issue has no final file.
C1_InterruptedDuringWrite ==
    /\ pc = "interrupted"
    /\ \E id \in Ids :
        /\ Exists(fs, path_for_issue(id, TRUE))
        /\ fs[path_for_issue(id, TRUE)].written = 0
        /\ ~Exists(fs, path_for_issue(id, FALSE))

\* C2: a run that follows a successful run against the same paged dataset
\* sends no per-issue request, and its missing set is empty.
C2_SecondRunDownloadsNothing ==
    (run > 1 /\ prev = "done" /\ service.kind = "paged") =>
        /\ count = 0
        /\ (pc \in {"for_issue", "done"} => new_issue_ids = <<>>)

\* C3: from a service that serves N issues in pages of size k, list_issues
\* returns exactly the N identifiers in served order.
C3_PagedWalkReturnsAll ==
    (service.kind = "paged" /\ pc = "list_return") => issue_ids = service.issues

\* C3 witness: a walk over a paged service that took more than one page.
C3_PagedWalkReturned ==
    /\ service.kind = "paged"
    /\ pc = "list_return"
    /\ Len(service.issues) > service.k

\* C4 as stated: successive request offsets increase strictly, each is
\* page.offset + count(page.issues) of the page before it, and the walk
\* stops at the first page with page.offset + count(page.issues) >= total.
C4_OffsetsStrictlyIncrease ==
    [][pc = "list_sleep" =>
        /\ pc' = "list_issues_page" =>
                /\ offset' > offset
                /\ offset' = page.offset + Len(page.issues)
                /\ page.offset + Len(page.issues) < page.total
        /\ pc' = "list_return" => page.offset + Len(page.issues) >= page.total]_vars

\* C4 amended: the offsets increase strictly as long as every page answers
\* the offset asked for and is non-empty while below its total; the next
\* offset and the stop are as stated for every page.
C4_OffsetsFollowPages ==
    [][pc = "list_sleep" =>
        /\ pc' = "list_issues_page" =>
                /\ (answered /\ fed) => offset' > offset
                /\ offset' = page.offset + Len(page.issues)
                /\ page.offset + Len(page.issues) < page.total
        /\ pc' = "list_return" => page.offset + Len(page.issues) >= page.total]_vars

\* C4 witness: a third request is about to be sent, every page so far having
\* answered the offset asked for.
C4_ThirdRequest ==
    /\ pc = "list_issues_page"
    /\ answered
    /\ fed
    /\ offset = 2
    /\ Len(issue_ids) = 2

\* C5 as stated: a walk ends (it returns the list or an error) if the total
\* never drops from one page to the next, every page having the offset asked
\* for.
C5_WalkEndsIfTotalSteady ==
    (pc = "list_issues_page") ~> (~InWalk \/ trend = "fell" \/ ~answered)

\* C5 amended: a walk ends, whatever the totals do, as long as every page
\* answers the offset asked for and is non-empty while below its total.
C5_WalkEndsIfPagesEcho ==
    (pc = "list_issues_page") ~> (~InWalk \/ ~answered \/ ~fed)

\* C5 witness: a walk returns its list although the total grew between two
\* of its requests.
C5_ReturnedAfterTotalGrew ==
    /\ pc = "list_return"
    /\ answered
    /\ fed
    /\ trend = "grew"

\* C6: the missing set is the identifiers of the list, in order, whose final
\* file does not exist; a temporary file does not count.
C6_MissingSetIsFilter ==
    /\ pc = "filter" =>
            new_issue_ids = Missing(SubSeq(issue_ids, 1, nchecked), fs)
    /\ (pc = "for_issue" /\ count = 0) =>
            new_issue_ids = Missing(issue_ids, fs)

\* C6 witness: the list is A, B, A; B has a final file, A only a temporary
\* one; the missing set is A, A.
C6_MissingWithLeftover ==
    /\ pc = "for_issue"
    /\ count = 0
    /\ issue_ids = <<"A", "B", "A">>
    /\ Exists(fs, path_for_issue("B", FALSE))
    /\ Exists(fs, path_for_issue("A", TRUE))
    /\ new_issue_ids = <<"A", "A">>

\* C7: a body of at most MAX_ISSUE_LEN bytes goes on to be written, and the
\* rename publishes it whole; a longer body fails the download as oversize
\* and the directory is as it was.
C7_SizeCapAtBoundary ==
    [][/\ (content' # content /\ content' # NoContent) =>
            IF content'.len <= MAX_ISSUE_LEN
            THEN pc' = "write" /\ last'.out = "Ok"
            ELSE pc' = "failed" /\ last'.out = "oversize" /\ fs' = fs
       /\ (pc = "rename" /\ last'.op = "rename" /\ last'.out = "Ok") =>
            /\ fs'[path_for_issue(content.issue, FALSE)] = File(content, content.len)
            /\ content.len <= MAX_ISSUE_LEN]_vars

\* C7 witness: a body one byte over the cap was refused, in a directory where
\* a body of exactly the cap has been published.
C7_OverAfterExact ==
    /\ pc = "failed"
    /\ last.out = "oversize"
    /\ content.len = MAX_ISSUE_LEN + 1
    /\ \E id \in Ids :
        /\ Exists(fs, path_for_issue(id, FALSE))
        /\ fs[path_for_issue(id, FALSE)].written = MAX_ISSUE_LEN

\* C8: a filesystem failure of the write or of the rename fails the run.
C8_FsFailureIsFatal ==
    (last.op \in {"create", "write_all", "rename"} /\ last.out = "io") =>
        pc = "failed"

\* C9: a response outside 200-299, from either endpoint, fails the run and
\* the step that receives it writes nothing.
C9_BadStatusAborts ==
    [][(/\ last' # last
        /\ last'.op \in {"list", "get"}
        /\ last'.status # 0
        /\ (last'.status < 200 \/ last'.status > 299)) =>
            /\ pc' = "failed"
            /\ fs' = fs]_vars

\* C9 witness: the per-issue endpoint answered 500.
C9_IssueAnswered500 ==
    /\ pc = "failed"
    /\ last.op = "get"
    /\ last.status = 500
    /\ ~Exists(fs, path_for_issue(last.id, FALSE))
    /\ ~Exists(fs, path_for_issue(last.id, TRUE))

\* C10: an existence check that fails other than by not-found ends the run:
\* no missing set comes out of the filter and no download was started.
C10_MetadataErrorAborts ==
    (last.op = "metadata" /\ last.out = "Other") =>
        /\ pc = "panicked"
        /\ new_issue_ids = <<>>
        /\ count = 0

\* C10 witness: the check of the second identifier failed, after the first
\* had been found missing.
C10_SecondCheckFailed ==
    /\ pc = "panicked"
    /\ nchecked = 2
    /\ ~Exists(fs, path_for_issue(issue_ids[1], FALSE))

Failures == {"io", "transport", "status", "decode", "oversize", "Other"}

\* An identifier that has a temporary file in dir and no final file.
LeftOver(dir, id) ==
    /\ Exists(dir, path_for_issue(id, TRUE))
    /\ ~Exists(dir, path_for_issue(id, FALSE))

Published(dir, id) ==
    /\ Exists(dir, path_for_issue(id, FALSE))
    /\ dir[path_for_issue(id, FALSE)].written = dir[path_for_issue(id, FALSE)].len

Occurs(id, ids) == \E i \in 1..Len(ids) : ids[i] = id

\* A step that sends a request to the remote service.
RequestStep ==
    \/ pc = "list_issues_page" /\ pc' \in {"list_sleep", "failed"}
    \/ pc = "for_issue" /\ count' = count + 1

\* A step that ends a call of download_issue, with Ok or with Err.
AttemptEnds ==
    /\ pc \in {"for_issue", "write", "write_all", "rename", "download_sleep"}
    /\ pc' \in {"for_issue", "failed"}
    /\ pc = "for_issue" => count' = count + 1

\* C11: a failure of any call, at any stage, ends the run there: nothing
\* follows it, and no download follows a failed listing request.
C11_FailureAbortsAtOnce ==
    /\ last.out \in Failures => pc \in {"failed", "panicked"}
    /\ (last.op = "list" /\ last.out \in Failures) => count = 0 /\ fs = start_fs

\* C12: in a run that follows an aborted one, no issue published before is
\* requested, every listed issue left with only its temporary file is in the
\* missing set, and when the run is done that issue has its full final file.
C12_RerunCompletes ==
    (run > 1 /\ prev = "aborted") =>
        /\ last.op = "get" => ~Exists(start_fs, path_for_issue(last.id, FALSE))
        /\ (pc = "for_issue" /\ count = 0) =>
                \A id \in Ids :
                    (Occurs(id, issue_ids) /\ LeftOver(start_fs, id)) =>
                        Occurs(id, new_issue_ids)
        /\ pc = "done" =>
                \A id \in Ids :
                    (Occurs(id, issue_ids) /\ LeftOver(start_fs, id)) =>
                        Published(fs, id)

\* C13 as stated: every call of download_issue, whether it returns Ok or Err,
\* ends with the pacing sleep, and nothing comes between that sleep and the
\* next identifier or the end of the run.
C13_SleepAfterEveryAttempt ==
    [][/\ AttemptEnds => last'.op = "sleep"
       /\ (pc = "for_issue" /\ count > 0 /\ pc' # "interrupted") =>
            last.op = "sleep"]_vars

\* C13 amended: a call of download_issue that returns Ok ends with the pacing
\* sleep, and nothing comes between that sleep and the next identifier or the
\* end of the run; a call that returns Err ends without a sleep.
C13_SleepAfterEveryOk ==
    [][/\ (AttemptEnds /\ pc' = "for_issue") =>
            /\ last'.op = "sleep"
            /\ last'.id = new_issue_ids[count]
       /\ (AttemptEnds /\ pc' = "failed") => last'.op # "sleep"
       /\ (pc = "for_issue" /\ count > 0 /\ pc' # "interrupted") =>
            last.op = "sleep"]_vars

\* C13 witness: a download has returned Ok, the sleep was the last thing done,
\* and another identifier is waiting.
C13_SleptBeforeNext ==
    /\ pc = "for_issue"
    /\ count >= 1
    /\ count < Len(new_issue_ids)
    /\ last = Call("sleep", new_issue_ids[count], 0, "3000")

\* C14: a run that ended has exit status 0 exactly when it completed without
\* an error, and exit status 1 whenever it hit one.
C14_ExitStatus ==
    pc \in {"done", "failed", "panicked"} =>
        /\ ExitStatus(pc) = 0 <=> (pc = "done" /\ last.out \notin Failures)
        /\ last.out \in Failures => ExitStatus(pc) = 1

\* C15: when download_issue returns Ok the final file holds exactly the body
\* received and the temporary file is gone.
C15_OkMeansPublished ==
    [][(pc = "download_sleep" /\ pc' = "for_issue") =>
        LET issue_id == new_issue_ids[count]
        IN  /\ Exists(fs', path_for_issue(issue_id, FALSE))
            /\ fs'[path_for_issue(issue_id, FALSE)] = File(content, content.len)
            /\ ~Exists(fs', path_for_issue(issue_id, TRUE))]_vars

\* C16: listing requests come before every existence check, existence checks
\* before every per-issue request; the per-issue requests follow the missing
\* set in order, each sent only when the download before it has gone through
\* its write, rename and sleep; writes and renames are those of the issue
\* just requested.
C16_StagesInOrder ==
    [][/\ (pc = "list_issues_page" /\ pc' \in {"list_sleep", "failed"}) =>
            /\ nchecked = 0
            /\ new_issue_ids = <<>>
            /\ count = 0
       /\ nchecked' = nchecked + 1 =>
            /\ pc = "filter"
            /\ last'.op = "metadata"
            /\ last'.id = issue_ids[nchecked + 1]
            /\ count = 0
       /\ count' = count + 1 =>
            /\ pc = "for_issue"
            /\ nchecked = Len(issue_ids)
            /\ last'.op = "get"
            /\ last'.id = new_issue_ids[count + 1]
            /\ count > 0 => last = Call("sleep", new_issue_ids[count], 0, "3000")
       /\ fs' # fs =>
            /\ pc \in {"write", "write_all", "rename"}
            /\ last'.op \in {"create", "write_all", "rename"}
            /\ last'.id = new_issue_ids[count]
            /\ content.issue = new_issue_ids[count]]_vars

\* C16 witness: two different issues have been downloaded one after the other.
C16_TwoDownloaded ==
    /\ pc = "for_issue"
    /\ count = 2
    /\ new_issue_ids[1] # new_issue_ids[2]
    /\ Published(fs, new_issue_ids[1])
    /\ Published(fs, new_issue_ids[2])

\* C17: an identifier whose final file the run found in place is never
\* requested, and its final and temporary files stay as they were.
C17_PresentUntouched ==
    \A id \in Ids :
        Exists(start_fs, path_for_issue(id, FALSE)) =>
            /\ Exists(fs, path_for_issue(id, FALSE))
            /\ fs[path_for_issue(id, FALSE)] = start_fs[path_for_issue(id, FALSE)]
            /\ Exists(fs, path_for_issue(id, TRUE)) <=>
                    Exists(start_fs, path_for_issue(id, TRUE))
            /\ Exists(fs, path_for_issue(id, TRUE)) =>
                    fs[path_for_issue(id, TRUE)] = start_fs[path_for_issue(id, TRUE)]
            /\ last.op \in {"get", "create", "write_all", "rename"} => last.id # id

\* C17 witness: a run is done that downloaded one issue and left alone a
\* listed one that had its final file, and a stale temporary file beside it.
C17_SkippedOneOfTwo ==
    /\ pc = "done"
    /\ count = 1
    /\ \E id \in Ids :
        /\ Occurs(id, issue_ids)
        /\ Exists(start_fs, path_for_issue(id, FALSE))
        /\ Exists(fs, path_for_issue(id, TRUE))

\* C18: a run that is done has called download_issue once for every entry of
\* the listing, repeated entries included, that had no final file when the
\* run started.
C18_OneCallPerOccurrence ==
    pc = "done" =>
        /\ new_issue_ids = Missing(service.issues, start_fs)
        /\ count = Len(Missing(service.issues, start_fs))

\* C18 witness: the listing names A twice, A had no file, and A was
\* downloaded twice.
C18_RepeatedKeyTwice ==
    /\ pc = "done"
    /\ service.issues = <<"A", "A">>
    /\ count = 2
    /\ new_issue_ids = <<"A", "A">>

\* C19: a request that is not the first of its run is sent only after a
\* pacing sleep taken since the request before it; the sleep of
\* list_issues_page is what follows every decoded page, the last one too, and
\* a listing request that fails is followed by no sleep.
C19_SleepBetweenRequests ==
    [][/\ RequestStep => (paced \/ last.op \in {"none", "create_dir_all"})
       /\ (pc = "list_issues_page" /\ pc' = "list_sleep") => page'.valid /\ ~paced'
       /\ (pc = "list_sleep" /\ pc' # "interrupted") =>
            /\ last' = Call("sleep", "", 0, "500")
            /\ paced'
       /\ (pc = "list_issues_page" /\ pc' = "failed") =>
            /\ last'.op = "list"
            /\ ~paced']_vars

\* C19 witness: the first per-issue request has been sent, after the sleep
\* that followed the last page of a walk of two pages.
C19_FirstIssueRequested ==
    /\ last.op = "get"
    /\ count = 1
    /\ ~paced
    /\ Len(issue_ids) > service.k

====
